---- MODULE Spec2Model ----
(***************************************************************************)
(* Model of the MySQL SET type of lib/sqlalchemy/dialects/mysql/           *)
(* enumerated.py: construction (blank-value rule, bit table), the bind     *)
(* processor (Python value -> value for the driver) and the result         *)
(* processor (driver value -> Python set), in string mode and in           *)
(* retrieve_as_bitwise mode.                                               *)
(*                                                                         *)
(* A Python string is a sequence of one-character strings; a Python value  *)
(* is a record tagged with its type (None, int, str, set of str).          *)
(***************************************************************************)
EXTENDS Integers, Sequences, FiniteSets, TLC

\* ---- bounds of the model ------------------------------------------------
MaxVocabLen == 2    \* longest vocabulary passed to SET(...)
MaxSetSize  == 2    \* largest set handed to a processor
MaxStrLen   == 3    \* longest raw string handed to a processor
MaxRawInt   == 8    \* largest raw integer handed to a processor

\* ---- Python values ------------------------------------------------------
PyNone   == [t |-> "none", i |-> 0, s |-> <<>>, m |-> {}]
PyInt(n) == [t |-> "int",  i |-> n, s |-> <<>>, m |-> {}]
PyStr(x) == [t |-> "str",  i |-> 0, s |-> x,    m |-> {}]
PySet(x) == [t |-> "set",  i |-> 0, s |-> <<>>, m |-> x]

Sep   == ","
\* the characters of the raw strings handed to a processor
Chars == {"a", Sep}
Blank == <<>>

\* the labels a vocabulary or a set is drawn from: the blank value, two
\* plain labels and a label that contains the separator
Labels == {Blank, <<"a">>, <<"b">>, <<Sep>>}

StrsUpTo(n) == UNION {[1..k -> Chars] : k \in 0..n}
Strs == StrsUpTo(MaxStrLen)

Vocabularies == UNION {[1..k -> Labels] : k \in 0..MaxVocabLen}

LabelSets == {S \in SUBSET Labels : Cardinality(S) <= MaxSetSize}

Range(q) == {q[k] : k \in DOMAIN q}

\* the iteration orders of a Python set
Orders(S) ==
  {q \in [1..Cardinality(S) -> S] :
      \A j, k \in 1..Cardinality(S) : j # k => q[j] # q[k]}

\* ---- the underlying string type's processors ----------------------------
ToWire(c) == CASE c = "a" -> "A" [] c = "b" -> "B" [] OTHER -> c
ToPy(c)   == CASE c = "A" -> "a" [] c = "B" -> "b" [] OTHER -> c

WireEncode(x) == [k \in 1..Len(x) |-> ToWire(x[k])]
WireDecode(x) == [k \in 1..Len(x) |-> ToPy(x[k])]

\* super().bind_processor(dialect) and super().result_processor(...), when
\* the string type supplies one: charset-level conversion of str values
SuperBindConvert(v)   == IF v.t = "str" THEN PyStr(WireEncode(v.s)) ELSE v
SuperResultConvert(v) == IF v.t = "str" THEN PyStr(WireDecode(v.s)) ELSE v

\* ---- state --------------------------------------------------------------
VARIABLES
  pc,                   \* "new", "ready" (constructed), "failed" (raised)
  values,               \* self.values
  retrieve_as_bitwise,  \* self.retrieve_as_bitwise
  _bitmap,              \* self._bitmap (empty when the attribute is unset)
  length,               \* the length passed on to the string type
  super_convert,        \* does the string type supply processors
  ctor_exc,             \* exception raised by __init__, or "none"
  op,                   \* last processor called: "none", "bind", "result"
  arg,                  \* the value the caller passed, as it was at the call
  arg_after,            \* the same object after the call
  ret,                  \* the value returned
  exc,                  \* the exception raised by the call, or "none"
  rt,                   \* the last result call decoded the last bind's output
  rt_src                \* ... and this is what that bind was given

vars == <<pc, values, retrieve_as_bitwise, _bitmap, length, super_convert,
          ctor_exc, op, arg, arg_after, ret, exc, rt, rt_src>>

config == <<values, retrieve_as_bitwise, _bitmap, length, super_convert>>

NoBitmap == [k \in {} |-> PyNone]

\* ---- SET.__init__ -------------------------------------------------------
\* variant: the blank value is refused in bitwise mode too
BlankRejected_AnyMode(vals, bitwise) == Blank \in Range(vals)

\* variant: a bitwise vocabulary longer than one label is refused
BlankRejected_WidthLimit(vals, bitwise) ==
  \/ (~bitwise) /\ (Blank \in Range(vals))
  \/ bitwise /\ Len(vals) > 1

\* "" in values and not retrieve_as_bitwise
BlankRejected(vals, bitwise) == (~bitwise) /\ (Blank \in Range(vals))

\* variant: 2 * idx in place of 2 ** idx
LabelToBit_Linear(vals) ==
  [k \in {PyStr(vals[p]) : p \in 1..Len(vals)} |->
     LET last == CHOOSE p \in 1..Len(vals) :
                   /\ vals[p] = k.s
                   /\ \A q \in 1..Len(vals) : vals[q] = k.s => q <= p
     IN  PyInt(2 * (last - 1))]

\* {value: 2**idx for idx, value in enumerate(self.values)}: a later
\* occurrence of a key replaces an earlier one
LabelToBit(vals) ==
  [k \in {PyStr(vals[p]) : p \in 1..Len(vals)} |->
     LET last == CHOOSE p \in 1..Len(vals) :
                   /\ vals[p] = k.s
                   /\ \A q \in 1..Len(vals) : vals[q] = k.s => q <= p
     IN  PyInt(2^(last - 1))]

\* (2**idx, value) for idx, value in enumerate(self.values)
BitToLabel(vals) ==
  [k \in {PyInt(2^(p - 1)) : p \in 1..Len(vals)} |->
     LET p == CHOOSE q \in 1..Len(vals) : 2^(q - 1) = k.i
     IN  PyStr(vals[p])]

\* dict.update
DictUpdate(d, e) ==
  [k \in (DOMAIN d) \cup (DOMAIN e) |-> IF k \in DOMAIN e THEN e[k] ELSE d[k]]

BuildBitmap(vals) == DictUpdate(LabelToBit(vals), BitToLabel(vals))

\* max([len(v) for v in values] + [0])
MaxLabelLength(vals) ==
  LET lens == {Len(vals[p]) : p \in 1..Len(vals)} \cup {0}
  IN  CHOOSE n \in lens : \A k \in lens : k <= n

SET_init ==
  /\ pc = "new"
  /\ \E vals \in Vocabularies, bitwise \in BOOLEAN :
       /\ retrieve_as_bitwise' = bitwise
       /\ values' = vals
       /\ IF BlankRejected(vals, bitwise)
            THEN /\ ctor_exc' = "ArgumentError"
                 /\ pc' = "failed"
                 /\ _bitmap' = NoBitmap
                 /\ length' = 0
            ELSE /\ ctor_exc' = "none"
                 /\ pc' = "ready"
                 /\ _bitmap' = IF bitwise THEN BuildBitmap(vals) ELSE NoBitmap
                 /\ length' = MaxLabelLength(vals)
  /\ UNCHANGED <<super_convert, op, arg, arg_after, ret, exc, rt, rt_src>>

\* ---- helpers of the processors ------------------------------------------
\* variant: "".join(seq)
RECURSIVE Join_NoSep(_)
Join_NoSep(q) ==
  IF Len(q) = 0 THEN <<>> ELSE q[1] \o Join_NoSep(Tail(q))

\* ",".join(seq)
RECURSIVE Join(_)
Join(q) ==
  IF Len(q) = 0 THEN <<>>
  ELSE IF Len(q) = 1 THEN q[1]
  ELSE q[1] \o <<Sep>> \o Join(Tail(q))

\* variant: x.split(","), which keeps the empty pieces
RECURSIVE NaiveSplitFrom(_, _, _)
NaiveSplitFrom(x, k, cur) ==
  IF k > Len(x) THEN <<cur>>
  ELSE IF x[k] = Sep THEN <<cur>> \o NaiveSplitFrom(x, k + 1, <<>>)
  ELSE NaiveSplitFrom(x, k + 1, Append(cur, x[k]))

FindAll_NaiveSplit(x) == NaiveSplitFrom(x, 1, <<>>)

\* re.findall(r"[^,]+", x): the maximal runs of non-separator characters,
\* scanning from the left; cur is the run being read
RECURSIVE FindAllFrom(_, _, _)
FindAllFrom(x, k, cur) ==
  IF k > Len(x)
    THEN (IF cur = <<>> THEN <<>> ELSE <<cur>>)
    ELSE IF x[k] = Sep
      THEN (IF cur = <<>> THEN <<>> ELSE <<cur>>) \o FindAllFrom(x, k + 1, <<>>)
      ELSE FindAllFrom(x, k + 1, Append(cur, x[k]))

FindAll(x) == FindAllFrom(x, 1, <<>>)

\* a | b on non-negative integers
RECURSIVE BitOr(_, _)
BitOr(a, b) ==
  IF a = 0 THEN b
  ELSE IF b = 0 THEN a
  ELSE (IF (a % 2 = 1) \/ (b % 2 = 1) THEN 1 ELSE 0)
       + 2 * BitOr(a \div 2, b \div 2)

\* variant: int_value = ... in place of int_value |= ...
OrAll_LastOnly(B) == IF B = {} THEN 0 ELSE CHOOSE x \in B : TRUE

\* int_value = 0; for v in ...: int_value |= ...
RECURSIVE OrAll(_)
OrAll(B) ==
  IF B = {} THEN 0
  ELSE LET b == CHOOSE x \in B : TRUE IN BitOr(b, OrAll(B \ {b}))

\* n & (~n + 1): the lowest set bit of n > 0
RECURSIVE LowBit(_)
LowBit(n) == IF n % 2 = 1 THEN 1 ELSE 2 * LowBit(n \div 2)

\* util.map_bits: the set bits of n, lowest first
RECURSIVE MapBits(_)
MapBits(n) ==
  IF n = 0 THEN <<>>
  ELSE LET b == LowBit(n) IN <<b>> \o MapBits(n - b)

Outcome(r, e, after) == [ret |-> r, exc |-> e, after |-> after]

\* ---- SET.bind_processor ------------------------------------------------
\* variant: self._bitmap.get(v, 0) in place of self._bitmap[v]
BindBitwise_Unchecked(value) ==
  IF value.t = "none" THEN Outcome(PyNone, "none", value)
  ELSE IF value.t \in {"int", "str"}
    THEN Outcome(IF super_convert THEN SuperBindConvert(value) ELSE value,
                 "none", value)
    ELSE Outcome(PyInt(OrAll({IF PyStr(v) \in DOMAIN _bitmap
                                THEN _bitmap[PyStr(v)].i ELSE 0 :
                              v \in value.m})),
                 "none", value)

\* process(value) when retrieve_as_bitwise
BindBitwise(value) ==
  IF value.t = "none" THEN Outcome(PyNone, "none", value)
  ELSE IF value.t \in {"int", "str"}
    THEN Outcome(IF super_convert THEN SuperBindConvert(value) ELSE value,
                 "none", value)
    ELSE IF \E v \in value.m : PyStr(v) \notin DOMAIN _bitmap
      THEN Outcome(PyNone, "KeyError", value)
      ELSE Outcome(PyInt(OrAll({_bitmap[PyStr(v)].i : v \in value.m})),
                   "none", value)

\* variant: without the isinstance test, a str is joined character by
\* character
BindString_JoinsStr(value, order) ==
  LET joined == IF value.t = "set" THEN PyStr(Join(order))
                ELSE IF value.t = "str"
                  THEN PyStr(Join([k \in 1..Len(value.s) |-> <<value.s[k]>>]))
                  ELSE value
  IN  Outcome(IF super_convert THEN SuperBindConvert(joined) ELSE joined,
              "none", value)

\* process(value) otherwise; order is the order the set iterates in
BindString(value, order) ==
  LET joined == IF value.t \notin {"none", "int", "str"}
                  THEN PyStr(Join(order))
                  ELSE value
  IN  Outcome(IF super_convert THEN SuperBindConvert(joined) ELSE joined,
              "none", value)

BindProcess(value, order) ==
  IF retrieve_as_bitwise THEN BindBitwise(value) ELSE BindString(value, order)

\* ---- SET.result_processor ----------------------------------------------
\* int(value): the model's strings hold no digits and never parse
IntCoerce(value) ==
  CASE value.t = "int" -> [n |-> value.i, exc |-> "none"]
    [] value.t = "str" -> [n |-> 0, exc |-> "ValueError"]
    [] OTHER           -> [n |-> 0, exc |-> "TypeError"]

\* variant: a bit without a label is skipped
ResultBitwise_SkipUnknown(value) ==
  IF value.t = "none" THEN Outcome(PyNone, "none", value)
  ELSE LET c == IntCoerce(value) IN
    IF c.exc # "none" THEN Outcome(PyNone, c.exc, value)
    ELSE LET bits == {b \in Range(MapBits(c.n)) : PyInt(b) \in DOMAIN _bitmap}
         IN  Outcome(PySet({_bitmap[PyInt(b)].s : b \in bits}), "none", value)

\* process(value) when retrieve_as_bitwise
ResultBitwise(value) ==
  IF value.t = "none" THEN Outcome(PyNone, "none", value)
  ELSE LET c == IntCoerce(value) IN
    IF c.exc # "none" THEN Outcome(PyNone, c.exc, value)
    ELSE LET bits == Range(MapBits(c.n)) IN
      IF \E b \in bits : PyInt(b) \notin DOMAIN _bitmap
        THEN Outcome(PyNone, "KeyError", value)
        ELSE Outcome(PySet({_bitmap[PyInt(b)].s : b \in bits}), "none", value)

\* variant: without value.discard("")
ResultString_NoDiscard(value) ==
  IF value.t = "str"
    THEN LET conv == IF super_convert THEN SuperResultConvert(value) ELSE value
         IN  Outcome(PySet(Range(FindAll(conv.s))), "none", value)
    ELSE IF value.t = "none" THEN Outcome(PyNone, "none", value)
    ELSE IF value.t = "set" THEN Outcome(value, "none", value)
    ELSE Outcome(PyNone, "AttributeError", value)

\* process(value) otherwise; a set is changed in place and returned
ResultString(value) ==
  IF value.t = "str"
    THEN LET conv == IF super_convert THEN SuperResultConvert(value) ELSE value
         IN  Outcome(PySet(Range(FindAll(conv.s))), "none", value)
    ELSE IF value.t = "none" THEN Outcome(PyNone, "none", value)
    ELSE IF value.t = "set"
      THEN LET discarded == PySet(value.m \ {Blank})
           IN  Outcome(discarded, "none", discarded)
      ELSE Outcome(PyNone, "AttributeError", value)

ResultProcess(value) ==
  IF retrieve_as_bitwise THEN ResultBitwise(value) ELSE ResultString(value)

\* ---- the calls a configured type receives -------------------------------
\* what a caller may bind: None, an int, a str, or a set of labels
BindInputs ==
  {PyNone} \cup {PyInt(n) : n \in 0..MaxRawInt}
           \cup {PyStr(x) : x \in Strs}
           \cup {PySet(S) : S \in LabelSets}

\* what a driver may return: None, an int, a str (in the wire charset when
\* the string type converts), or an already split set
DriverValues ==
  {PyNone} \cup {PyInt(n) : n \in 0..MaxRawInt}
           \cup {PyStr(IF super_convert THEN WireEncode(x) ELSE x) : x \in Strs}
           \cup {PySet(S) : S \in LabelSets}

Record(o, kind, value, isrt, src) ==
  /\ op' = kind
  /\ arg' = value
  /\ arg_after' = o.after
  /\ ret' = o.ret
  /\ exc' = o.exc
  /\ rt' = isrt
  /\ rt_src' = src
  /\ UNCHANGED <<pc, ctor_exc, config>>

\* bind_processor(dialect)(value)
bind_process ==
  /\ pc = "ready"
  /\ \E value \in BindInputs :
       \E order \in (IF value.t = "set" THEN Orders(value.m) ELSE {<<>>}) :
         Record(BindProcess(value, order), "bind", value, FALSE, PyNone)

\* result_processor(dialect, coltype)(value) on a value from the driver
result_process ==
  /\ pc = "ready"
  /\ \E value \in DriverValues :
       Record(ResultProcess(value), "result", value, FALSE, PyNone)

\* result_processor(dialect, coltype)(value) on what the last bind produced
result_process_bound ==
  /\ pc = "ready"
  /\ op = "bind"
  /\ exc = "none"
  /\ Record(ResultProcess(ret), "result", ret, TRUE, arg)

Init ==
  /\ pc = "new"
  /\ values = <<>>
  /\ retrieve_as_bitwise = FALSE
  /\ _bitmap = NoBitmap
  /\ length = 0
  /\ super_convert \in BOOLEAN
  /\ ctor_exc = "none"
  /\ op = "none"
  /\ arg = PyNone
  /\ arg_after = PyNone
  /\ ret = PyNone
  /\ exc = "none"
  /\ rt = FALSE
  /\ rt_src = PyNone

Next ==
  \/ SET_init
  \/ bind_process
  \/ result_process
  \/ result_process_bound

Spec == Init /\ [][Next]_vars

TypeOK ==
  /\ pc \in {"new", "ready", "failed"}
  /\ op \in {"none", "bind", "result"}
  /\ exc \in {"none", "KeyError", "ValueError", "TypeError", "AttributeError"}

\* ---- vocabulary predicates used by the properties -----------------------
Distinct(vals) ==
  \A j, k \in 1..Len(vals) : j # k => vals[j] # vals[k]

NoSep(vals) ==
  \A p \in 1..Len(vals) : Sep \notin Range(vals[p])

DrawnFrom(v, vals) == v.t = "set" /\ v.m \subseteq Range(vals)

IntKeys(d) == {k \in DOMAIN d : k.t = "int"}

\* bit k (0-based) of n is set
BitSet(n, k) == (n \div (2^k)) % 2 = 1

\* the non-empty pieces of x between separators
Fragments(x) ==
  {SubSeq(x, p[1], p[2]) :
     p \in {q \in (1..Len(x)) \X (1..Len(x)) :
              /\ q[1] <= q[2]
              /\ \A k \in q[1]..q[2] : x[k] # Sep
              /\ (q[1] = 1 \/ x[q[1] - 1] = Sep)
              /\ (q[2] = Len(x) \/ x[q[2] + 1] = Sep)}}

\* ---- C1 -----------------------------------------------------------------
\* C1: in bitwise mode, for a vocabulary of distinct labels (the blank label
\* included), binding a set S drawn from the vocabulary succeeds with an
\* integer and the result processor applied to that integer returns exactly
\* S; the empty set binds to 0 and 0 decodes to the empty set.
C1_BitmaskRoundTrip ==
  (pc = "ready" /\ retrieve_as_bitwise /\ Distinct(values)) =>
    /\ (op = "bind" /\ DrawnFrom(arg, values)) =>
         (exc = "none" /\ ret.t = "int")
    /\ (rt /\ DrawnFrom(rt_src, values)) => (exc = "none" /\ ret = rt_src)
    /\ (op = "bind" /\ arg = PySet({})) => (exc = "none" /\ ret = PyInt(0))
    /\ (op = "result" /\ arg = PyInt(0)) => (exc = "none" /\ ret = PySet({}))

C1_Witness ==
  /\ pc = "ready" /\ retrieve_as_bitwise /\ Distinct(values)
  /\ rt
  /\ rt_src = PySet({Blank, <<"a">>})
  /\ DrawnFrom(rt_src, values)
  /\ arg.t = "int" /\ arg.i = 3
  /\ ret = rt_src

\* ---- C2 -----------------------------------------------------------------
\* C2 as stated: in string mode, for every vocabulary the constructor
\* accepts and every set S drawn from it, decoding the joined string that
\* binding S produced returns exactly S.
C2_Original ==
  (pc = "ready" /\ ~retrieve_as_bitwise /\ rt /\ DrawnFrom(rt_src, values)) =>
    (exc = "none" /\ ret = rt_src)

\* C2 amended: the same, for vocabularies none of whose labels contains the
\* separator ",".
C2_StringRoundTrip ==
  (pc = "ready" /\ ~retrieve_as_bitwise /\ NoSep(values)
     /\ rt /\ DrawnFrom(rt_src, values)) =>
    (exc = "none" /\ ret = rt_src)

C2_Witness ==
  /\ pc = "ready" /\ ~retrieve_as_bitwise /\ NoSep(values)
  /\ rt
  /\ rt_src = PySet({<<"a">>, <<"b">>})
  /\ DrawnFrom(rt_src, values)
  /\ arg.t = "str" /\ Len(arg.s) = 3
  /\ ret = rt_src

\* ---- C3 -----------------------------------------------------------------
HasUnknownMember(v, vals) ==
  v.t = "set" /\ \E x \in v.m : x \notin Range(vals)

\* C3 as stated: in every mode, binding a set with a member that is not in
\* the vocabulary raises and returns nothing.
C3_Original ==
  (pc = "ready" /\ op = "bind" /\ HasUnknownMember(arg, values)) =>
    (exc = "KeyError" /\ ret = PyNone)

\* C3 amended: binding a set with a member that is not in the vocabulary
\* raises KeyError and returns nothing in bitwise mode; in string mode the
\* members are not checked and their comma-joined string is returned.
C3_UnknownMember ==
  (pc = "ready" /\ op = "bind" /\ HasUnknownMember(arg, values)) =>
    IF retrieve_as_bitwise
      THEN exc = "KeyError" /\ ret = PyNone
      ELSE /\ exc = "none"
           /\ \E q \in Orders(arg.m) :
                ret = PyStr(IF super_convert THEN WireEncode(Join(q))
                                             ELSE Join(q))

C3_Witness ==
  /\ pc = "ready" /\ retrieve_as_bitwise
  /\ values = <<<<"a">>>>
  /\ op = "bind"
  /\ arg = PySet({<<"a">>, <<"b">>})
  /\ exc = "KeyError"

\* ---- C4 -----------------------------------------------------------------
\* C4: constructing a SET raises ArgumentError exactly when the vocabulary
\* contains the blank label "" and retrieve_as_bitwise is false; the same
\* vocabulary is accepted with retrieve_as_bitwise true, and a vocabulary
\* without "" is never rejected.
C4_BlankLabelRule ==
  (pc # "new") =>
    /\ ctor_exc \in {"none", "ArgumentError"}
    /\ (ctor_exc = "ArgumentError") <=> (pc = "failed")
    /\ (ctor_exc = "ArgumentError") <=>
         ((~retrieve_as_bitwise) /\ (\E p \in 1..Len(values) : Len(values[p]) = 0))

C4_Witness ==
  /\ pc = "failed"
  /\ ctor_exc = "ArgumentError"
  /\ ~retrieve_as_bitwise
  /\ values = <<<<"a">>, Blank>>

\* ---- C5 -----------------------------------------------------------------
\* C5: in bitwise mode, decoding an integer that has a set bit at a position
\* no vocabulary label owns (position >= number of labels) raises KeyError
\* and returns nothing, whatever other bits are set.
C5_UnknownBit ==
  (pc = "ready" /\ retrieve_as_bitwise /\ op = "result" /\ arg.t = "int"
     /\ \E k \in Len(values)..MaxRawInt : BitSet(arg.i, k)) =>
    (exc = "KeyError" /\ ret = PyNone)

C5_Witness ==
  /\ pc = "ready" /\ retrieve_as_bitwise
  /\ values = <<<<"a">>, <<"b">>>>
  /\ op = "result"
  /\ arg = PyInt(5)
  /\ exc = "KeyError"
  /\ ret = PyNone

C7_BitAssignment ==
  (pc = "ready" /\ retrieve_as_bitwise /\ Distinct(values)) =>
    /\ \A p \in 1..Len(values) :
         /\ PyStr(values[p]) \in DOMAIN _bitmap
         /\ _bitmap[PyStr(values[p])] = PyInt(2^(p - 1))
         /\ PyInt(2^(p - 1)) \in DOMAIN _bitmap
         /\ _bitmap[PyInt(2^(p - 1))] = PyStr(values[p])
    /\ \A k \in DOMAIN _bitmap :
         \E p \in 1..Len(values) : k = PyStr(values[p]) \/ k = PyInt(2^(p - 1))
    /\ \A p, q \in 1..Len(values) :
         p # q => _bitmap[PyStr(values[p])] # _bitmap[PyStr(values[q])]

C7_Witness ==
  /\ pc = "ready" /\ retrieve_as_bitwise
  /\ values = <<<<"b">>, Blank>>
  /\ _bitmap[PyStr(<<"b">>)] = PyInt(1)
  /\ _bitmap[PyStr(Blank)] = PyInt(2)
  /\ _bitmap[PyInt(2)] = PyStr(Blank)

\* ---- C8 -----------------------------------------------------------------
\* what the string type's result conversion makes of a driver string
Converted(v) == IF super_convert THEN WireDecode(v.s) ELSE v.s

\* C8: string-mode decode never returns a set that contains ""; the string
\* "" decodes to the empty set; a string decodes to exactly the set of its
\* non-empty comma-separated fragments; an already split set decodes to its
\* members minus "".
C8_StringDecode ==
  (pc = "ready" /\ ~retrieve_as_bitwise /\ op = "result") =>
    /\ (ret.t = "set") => (Blank \notin ret.m)
    /\ (arg = PyStr(<<>>)) => (exc = "none" /\ ret = PySet({}))
    /\ (arg.t = "str") =>
         (exc = "none" /\ ret = PySet(Fragments(Converted(arg))))
    /\ (arg.t = "set") => (exc = "none" /\ ret = PySet(arg.m \ {Blank}))

C8_Witness ==
  /\ pc = "ready" /\ ~retrieve_as_bitwise /\ ~super_convert
  /\ op = "result"
  /\ arg = PyStr(<<Sep, "a", Sep>>)
  /\ ret = PySet({<<"a">>})

\* ---- C9 -----------------------------------------------------------------
\* C9: in both modes, binding a value that is already a str or an int
\* returns what the string type's bind conversion returns for that value,
\* or the value itself when there is no conversion; it is not joined, not
\* looked up and not checked.
C9_PassThrough ==
  (pc = "ready" /\ op = "bind" /\ arg.t \in {"int", "str"}) =>
    /\ exc = "none"
    /\ ret = IF super_convert THEN SuperBindConvert(arg) ELSE arg

C9_Witness ==
  /\ pc = "ready" /\ ~retrieve_as_bitwise /\ ~super_convert
  /\ op = "bind"
  /\ arg = PyStr(<<"a", "a">>)
  /\ ret = arg
  /\ <<"a", "a">> \notin Range(values)

\* ---- C10 ----------------------------------------------------------------
\* C10 as stated: no processor call changes the configuration or the value
\* the caller passed.
C10_Original ==
  [][(pc = "ready") => (config' = config /\ arg_after' = arg')]_vars

\* C10 amended: no processor call changes the configuration, and none
\* changes the value the caller passed except string-mode decode of an
\* already split set, which removes "" from that set in place and returns
\* the same set.
C10_FrameEffect ==
  [][(pc = "ready") =>
       /\ config' = config
       /\ IF (~retrieve_as_bitwise) /\ op' = "result" /\ arg'.t = "set"
            THEN /\ arg_after' = PySet(arg'.m \ {Blank})
                 /\ ret' = arg_after'
            ELSE arg_after' = arg']_vars

C10_Witness ==
  /\ pc = "ready" /\ ~retrieve_as_bitwise
  /\ op = "result"
  /\ arg = PySet({Blank, <<"a">>})
  /\ arg_after = PySet({<<"a">>})
  /\ ret = arg_after

====
